---- MODULE Spec2Model ----
(***************************************************************************)
(* Model of tools/tsd.js: the schema-driven renderer of the TypeScript     *)
(* declaration file.                                                       *)
(*                                                                         *)
(* Text is modelled by TLA+ strings built with \o exactly where the source *)
(* builds template literals.  A Path Id is modelled by the sequence of its *)
(* dot-separated segments: `${id}.${name}` is Append(id, name), and the    *)
(* first segment stands for `api:<namespace>`.  An optional field of a     *)
(* schema node is <<>> when absent and <<v>> when present; a string field  *)
(* is "" when absent.  A thrown Error is a result with ok = FALSE, which   *)
(* every caller passes on at once.                                         *)
(***************************************************************************)
EXTENDS Integers, Sequences, FiniteSets, TLC

VARIABLES
  pc,        \* position of the run
  overrides, \* the override collaborator's tables
  hiddenIds, \* Path Ids the visibility policy rejects
  argSpec,   \* SpecType: the node handed to renderType
  argId,     \* SpecType: its Path Id
  argAmbig,  \* SpecType: the ambiguous-context flag
  result,    \* SpecType: what renderType returned
  api,       \* Spec: o.api, the namespaces in insertion order
  entries,   \* Spec: the sorted entries
  idx,       \* Spec: index of the next entry of entries.forEach
  buf,       \* Spec: the top-level RenderBuffer
  stdout,    \* Spec: what process.stdout.write has received
  log        \* Spec: the calls made so far (ghost)

vars == <<pc, overrides, hiddenIds, argSpec, argId, argAmbig, result, api, entries, idx, buf, stdout, log>>

(***************************************************************************)
(* Bounds of the model.                                                    *)
(***************************************************************************)
MaxItems == 2
MaxParams == 3

(***************************************************************************)
(* Optional values.                                                        *)
(***************************************************************************)
None == <<>>
Some(x) == <<x>>

RECURSIVE Join(_, _)
\* Array.prototype.join
Join(parts, sep) ==
  IF Len(parts) = 0 THEN ""
  ELSE IF Len(parts) = 1 THEN parts[1]
  ELSE parts[1] \o sep \o Join(Tail(parts), sep)

\* new Array(n).fill(x)
Fill(n, x) == [k \in 1..n |-> x]

\* [x for x in s if Test(x)], order kept
RECURSIVE SelectIdx(_, _, _)
SelectIdx(s, keep, i) ==
  IF i > Len(s) THEN <<>>
  ELSE (IF keep[i] THEN <<s[i]>> ELSE <<>>) \o SelectIdx(s, keep, i + 1)

(***************************************************************************)
(* Literal values (the `value` field, enum members).                       *)
(***************************************************************************)
Str(s) == [kind |-> "string", s |-> s, n |-> 0, b |-> FALSE, description |-> "", rest |-> <<>>]
Num(n) == [kind |-> "number", s |-> "", n |-> n, b |-> FALSE, description |-> "", rest |-> <<>>]
Bool(b) == [kind |-> "boolean", s |-> "", n |-> 0, b |-> b, description |-> "", rest |-> <<>>]
\* an enum member {name, description}
EnumObj(name, d) == [kind |-> "object", s |-> name, n |-> 0, b |-> FALSE, description |-> d, rest |-> <<>>]
\* an array [head, ...rest]: a string followed by template nodes
Arr(head, rest) == [kind |-> "array", s |-> head, n |-> 0, b |-> FALSE, description |-> "", rest |-> rest]

\* JavaScript truthiness of a literal
Truthy(v) ==
  CASE v.kind = "string" -> v.s # ""
    [] v.kind = "number" -> v.n # 0
    [] v.kind = "boolean" -> v.b
    [] OTHER -> TRUE

\* JSON.stringify of a literal
JSONstringify(v) ==
  CASE v.kind = "string" -> "\"" \o v.s \o "\""
    [] v.kind = "number" -> ToString(v.n)
    [] v.kind = "boolean" -> (IF v.b THEN "true" ELSE "false")
    [] v.kind = "array" -> "[\"" \o v.s \o "\"" \o (IF v.rest = <<>> THEN "" ELSE ",{...}") \o "]"
    [] OTHER -> "{\"name\":\"" \o v.s \o "\"}"

(***************************************************************************)
(* Schema nodes.                                                           *)
(***************************************************************************)
Blank ==
  [type |-> "", ref |-> "", isInstanceOf |-> "", name |-> "", namespace |-> "",
   description |-> "", nodoc |-> FALSE, optional |-> FALSE,
   enum |-> None, choices |-> None, items |-> None, minItems |-> None,
   maxItems |-> None, additionalProperties |-> None, value |-> None,
   parameters |-> None, returns |-> None, returns_async |-> None,
   deprecated |-> None, properties |-> <<>>, types |-> <<>>, functions |-> <<>>]

Prim(t) == [Blank EXCEPT !.type = t]
\* an entry of a name -> node mapping
Entry(k, n) == [key |-> k, node |-> n]

VoidNode == Prim("void")
NumberNode == Prim("number")

(***************************************************************************)
(* Collaborators.                                                          *)
(***************************************************************************)
\* overrideApi.isVisible
isVisible(node, pathId) == ~node.nodoc /\ pathId \notin hiddenIds

\* overrideApi.typeOverride
typeOverride(node, pathId) ==
  IF overrides.type # None /\ overrides.type[1].id = pathId
  THEN Some(overrides.type[1].node) ELSE None

\* overrideApi.replaceAnyWith
replaceAnyWith(pathId) ==
  IF overrides.any # None /\ overrides.any[1].id = pathId
  THEN Some(overrides.any[1].text) ELSE None

\* overrideApi.objectTemplatesFor
objectTemplatesFor(pathId) ==
  IF overrides.templates # None /\ overrides.templates[1].id = pathId
  THEN Some(overrides.templates[1].text) ELSE None

\* isValidToken of lib/js-internals.js
ReservedWords == {"debugger", "delete", "3d"}
isValidToken(name) == name \notin ReservedWords

\* last of lib/traverse.js
last(pathId) == pathId[Len(pathId)]

\* namespaceNameFromId of lib/traverse.js
namespaceNameFromId(pathId) == pathId[1]

\* the rewriter buildNamespaceAwareMarkdownRewrite returns
SymbolMentions == {"$(ref:Tab)"}
commentRewriter(namespaceName, text) ==
  IF text \in SymbolMentions THEN "chrome." \o namespaceName \o "." \o text ELSE text

\* TraverseContext.propertiesFor: the visible properties, keyed by child id
propertiesFor(node, parent) ==
  LET ps == node.properties
      keep == [i \in 1..Len(ps) |-> isVisible(ps[i].node, Append(parent, ps[i].key))]
      all == [i \in 1..Len(ps) |-> [id |-> Append(parent, ps[i].key), node |-> ps[i].node]]
  IN SelectIdx(all, keep, 1)

\* TraverseContext.forEach: the visible entries of a mapping, in insertion order
forEachVisible(mapping, parent) ==
  LET keep == [i \in 1..Len(mapping) |-> isVisible(mapping[i].node, Append(parent, mapping[i].key))]
      all == [i \in 1..Len(mapping) |-> [id |-> Append(parent, mapping[i].key), node |-> mapping[i].node]]
  IN SelectIdx(all, keep, 1)

(***************************************************************************)
(* RenderBuffer of lib/buffer.js: the lines written, in call order.        *)
(***************************************************************************)
\* kind, id and variant say which statement wrote the line, for which Path Id and
\* for which variant of which function (ghost)
Ln(kind, pathId, text) == [kind |-> kind, id |-> pathId, text |-> text, tags |-> <<>>, variant |-> <<>>]
Line(text) == Ln("line", <<>>, text)
render(b) == Join([i \in 1..Len(b) |-> b[i].text], "\n")

\* a logged call (ghost): which function, with which Path Id, for which node position
Call(fn, pathId, pos) == [fn |-> fn, id |-> pathId, pos |-> pos]

\* results of the rendering functions
\* text: the string returned or the Error's message; lines: the lines written to a
\* buffer; parts: the strings of a map(); calls: the calls made (ghost)
Ret(text, calls) == [ok |-> TRUE, text |-> text, calls |-> calls, lines |-> <<>>, parts |-> <<>>]
Throw(msg, calls) == [ok |-> FALSE, text |-> msg, calls |-> calls, lines |-> <<>>, parts |-> <<>>]
Nothing == Ret("", <<>>)
Emit(lines) == [Nothing EXCEPT !.lines = lines]
Logged(calls) == Ret("", calls)

\* a rendered string as one element of a map()
AsPart(r) == IF ~r.ok THEN r ELSE [r EXCEPT !.parts = <<r.text>>, !.lines = <<>>]

\* statement r followed by statement t, which is not reached when r throws
Then(r, t) ==
  IF ~r.ok THEN r
  ELSE IF ~t.ok THEN Throw(t.text, r.calls \o t.calls)
  ELSE [ok |-> TRUE, text |-> t.text, calls |-> r.calls \o t.calls,
        lines |-> r.lines \o t.lines, parts |-> r.parts \o t.parts]

(***************************************************************************)
(* renderComment                                                           *)
(***************************************************************************)
toLocaleLowerCase(s) == CASE s = "None" -> "none" [] s = "NONE" -> "none" [] OTHER -> s

Tag(name, value) == [name |-> name, value |-> value]

paramTags(node) ==
  LET ps == IF node.parameters = None THEN <<>> ELSE node.parameters[1]
  IN [i \in 1..Len(ps) |->
        Tag("param",
            (IF ps[i].name = "" THEN "_" \o ToString(i - 1) ELSE ps[i].name)
              \o (IF ps[i].description # "" THEN " " \o ps[i].description ELSE ""))]

returnsTags(node) ==
  IF node.returns # None /\ node.returns[1].description # ""
  THEN <<Tag("returns", node.returns[1].description)>> ELSE <<>>

deprecatedTags(node) ==
  IF node.deprecated # None THEN <<Tag("deprecated", node.deprecated[1])>> ELSE <<>>

enumTags(node) ==
  LET es == IF node.enum = None THEN <<>> ELSE node.enum[1]
      keep == [i \in 1..Len(es) |-> es[i].kind = "object" /\ es[i].description # ""]
      all == [i \in 1..Len(es) |->
                Tag("chrome-enum", JSONstringify(Str(es[i].s)) \o " " \o es[i].description)]
  IN SelectIdx(all, keep, 1)

\* the documentation block of a node: <<>> when there is nothing to render
renderComment(node, pathId) ==
  LET tags == paramTags(node) \o returnsTags(node) \o deprecatedTags(node) \o enumTags(node)
      d0 == node.description
      description == IF toLocaleLowerCase(d0) = "none" THEN "" ELSE d0
      namespaceName == namespaceNameFromId(pathId)
      rewritten == [i \in 1..Len(tags) |->
                      IF tags[i].value # ""
                      THEN Tag(tags[i].name, commentRewriter(namespaceName, tags[i].value))
                      ELSE tags[i]]
  IN IF description = "" /\ Len(tags) = 0 THEN <<>>
     ELSE <<[kind |-> "comment", id |-> pathId,
             text |-> "/** " \o (IF description # "" THEN commentRewriter(namespaceName, description) ELSE "")
                        \o Join([i \in 1..Len(rewritten) |-> " @" \o rewritten[i].name \o " " \o rewritten[i].value], "")
                        \o " */",
             tags |-> rewritten, variant |-> <<>>]>>

(***************************************************************************)
(* renderType.  A function of the source that uses the result of a call    *)
(* several times is written as an operator that receives that result.      *)
(***************************************************************************)
RECURSIVE renderType(_, _, _, _)
RECURSIVE renderChoices(_, _, _, _)
RECURSIVE renderTemplates(_, _, _, _)
RECURSIVE renderProps(_, _, _, _, _)
RECURSIVE renderParams(_, _, _, _, _, _)

\* line 431: whether the `value` branch is taken
hasValue(spec) == spec.value # None /\ Truthy(spec.value[1])

\* line 334: whether the `maxItems` branch is taken
hasMaxItems(spec) == spec.maxItems # None /\ spec.maxItems[1] # 0

\* line 296
maybeWrapAmbig(ambig, s) == IF ambig THEN "(" \o s \o ")" ELSE s

\* lines 298-314
renderEnum(spec, ambig, calls) ==
  LET members == spec.enum[1] IN
  IF spec.type \notin {"string", "integer"} \/ Len(members) = 0
  THEN Throw("invalid enum", calls)
  ELSE LET primitiveOnly == [i \in 1..Len(members) |->
                               IF members[1].kind = "object" THEN Str(members[i].s) ELSE members[i]]
       IN Ret(maybeWrapAmbig(ambig, Join([i \in 1..Len(primitiveOnly) |-> JSONstringify(primitiveOnly[i])], " | ")),
              calls)

\* lines 320-323: the alternatives from index i on, each rendered under `${id}._${i}`
renderChoices(choices, id, pos, i) ==
  IF i > Len(choices) THEN Nothing
  ELSE Then(AsPart(renderType(Some(choices[i]), Append(id, "_" \o ToString(i - 1)), FALSE,
                              Append(pos, "choices" \o ToString(i - 1)))),
            renderChoices(choices, id, pos, i + 1))

\* lines 320-323: the union of the rendered alternatives
choicesType(ambig, calls, r) ==
  IF ~r.ok THEN Throw(r.text, calls \o r.calls)
  ELSE Ret(maybeWrapAmbig(ambig, Join(r.parts, " | ")), calls \o r.calls)

\* lines 333-353: the text of an array type given its rendered element type
arrayText(spec, inner, ambig) ==
  IF hasMaxItems(spec)
  THEN LET lo == IF spec.minItems = None THEN 0 ELSE spec.minItems[1]
           hi == spec.maxItems[1]
           parts == [k \in 1..(hi - lo + 1) |-> "[" \o Join(Fill(lo + k - 1, inner), ", ") \o "]"]
       IN IF Len(parts) = 1 THEN parts[1] ELSE maybeWrapAmbig(ambig, Join(parts, " | "))
  ELSE LET arr == inner \o "[]"
       IN IF spec.minItems # None /\ spec.minItems[1] # 0
          THEN maybeWrapAmbig(ambig, "[" \o Join(Fill(spec.minItems[1], inner), ",") \o ", ..." \o arr \o "]")
          ELSE arr

\* lines 333-353, given the result of rendering the element type
arrayOf(spec, ambig, calls, inner) ==
  IF ~inner.ok THEN Throw(inner.text, calls \o inner.calls)
  ELSE Ret(arrayText(spec, inner.text, ambig), calls \o inner.calls)

\* lines 326-354
renderArray(spec, id, ambig, pos, calls) ==
  arrayOf(spec, ambig, calls,
          renderType(IF spec.items = None THEN Some(NumberNode) ELSE spec.items, Append(id, "_"), TRUE,
                     Append(pos, "items")))

\* the `?` of a property or parameter
optMark(flag) == IF flag THEN "?" ELSE ""

\* lines 380-388: the blank line and documentation block before a member
gapLines(commentBuffer, needsGap) ==
  IF commentBuffer # <<>> THEN <<Line("")>> \o commentBuffer
  ELSE IF needsGap THEN <<Line("")>> ELSE <<>>

\* lines 378-392: one property, given the result r of rendering its type
propLine(prop, childId, pos, needsGap, r) ==
  IF ~r.ok THEN Throw(r.text, <<Call("renderComment", childId, pos)>> \o r.calls)
  ELSE [Nothing EXCEPT
          !.lines = gapLines(renderComment(prop, childId), needsGap)
                      \o <<Ln("property", childId, last(childId) \o optMark(prop.optional) \o ": " \o r.text \o ",")>>,
          !.calls = <<Call("renderComment", childId, pos)>> \o r.calls]

\* lines 377-393: the properties from index i on; needsGap as the loop carries it
renderProps(props, id, pos, i, needsGap) ==
  IF i > Len(props) THEN Nothing
  ELSE Then(propLine(props[i].node, props[i].id, Append(pos, "properties." \o last(props[i].id)), needsGap,
                     renderType(Some(props[i].node), Append(id, last(props[i].id)), FALSE,
                                Append(pos, "properties." \o last(props[i].id)))),
            renderProps(props, id, pos, i + 1, renderComment(props[i].node, props[i].id) # <<>>))

\* lines 368-396: the record type, given its rendered properties
objectBody(calls, first, body) ==
  IF ~body.ok THEN Throw(body.text, calls \o body.calls)
  ELSE [Ret(render(<<Line("{")>> \o first \o body.lines \o <<Line("}")>>), calls \o body.calls)
          EXCEPT !.lines = body.lines]

\* lines 357-396, given the result ap of rendering additionalProperties
objectOf(spec, id, pos, calls, ap) ==
  LET additionalPropertiesPart == IF spec.additionalProperties # None
                                  THEN "[name: string]: " \o ap.text ELSE ""
      props == propertiesFor(spec, id)
      first == IF additionalPropertiesPart # "" THEN <<Line(additionalPropertiesPart \o ",")>> ELSE <<>>
  IN IF ~ap.ok THEN Throw(ap.text, calls \o ap.calls)
     ELSE IF Len(props) = 0 THEN Ret("{" \o additionalPropertiesPart \o "}", calls \o ap.calls)
     ELSE objectBody(calls \o ap.calls, first, renderProps(props, id, pos, 1, additionalPropertiesPart # ""))

\* lines 356-397
renderObject(spec, id, pos, calls) ==
  objectOf(spec, id, pos, calls,
           IF spec.additionalProperties # None
           THEN renderType(spec.additionalProperties, id, FALSE, Append(pos, "additionalProperties"))
           ELSE Nothing)

\* lines 417-420: the template arguments from index i on, each under `${id}.@${i}`
renderTemplates(templates, id, pos, i) ==
  IF i > Len(templates) THEN Nothing
  ELSE Then(AsPart(renderType(Some(templates[i]), Append(id, "@" \o ToString(i - 1)), FALSE,
                              Append(pos, "value" \o ToString(i - 1)))),
            renderTemplates(templates, id, pos, i + 1))

\* line 421
templatesOf(spec, calls, inner) ==
  IF ~inner.ok THEN Throw(inner.text, calls \o inner.calls)
  ELSE Ret(spec.ref \o "<" \o Join(inner.parts, ", ") \o ">", calls \o inner.calls)

\* line 404, given the results of rendering the reference and the properties
intersectionOf(calls, a, b) ==
  IF ~a.ok THEN Throw(a.text, calls \o a.calls)
  ELSE IF ~b.ok THEN Throw(b.text, calls \o a.calls \o b.calls)
  ELSE Ret(a.text \o " & " \o b.text, calls \o a.calls \o b.calls)

\* lines 399-429
renderRef(spec, id, pos, calls) ==
  IF Len(spec.properties) # 0
  THEN intersectionOf(calls,
                      renderType(Some([spec EXCEPT !.properties = <<>>]), id, FALSE, pos),
                      renderType(Some([Blank EXCEPT !.properties = spec.properties, !.type = "object"]),
                                 Append(id, "!"), FALSE, Append(pos, "!")))
  ELSE IF hasValue(spec)
  THEN IF spec.value[1].kind # "array" THEN Throw("unexpected template type for $ref", calls)
       ELSE IF Len(spec.value[1].rest) > 0
       THEN templatesOf(spec, calls, renderTemplates(spec.value[1].rest, id, pos, 1))
       ELSE Ret(spec.ref, calls)
  ELSE Ret(spec.ref, calls)

\* a faulty lastOptional, under which every optional parameter is marked (C2 fails)
everyOptional(params) == 0

\* lines 448-451: the index at which the trailing run of optional parameters starts
lastOptionalOf(params) ==
  CHOOSE l \in 0..Len(params) :
    /\ \A k \in (l + 1)..Len(params) : params[k].optional
    /\ (l = 0 \/ ~params[l].optional)

\* line 467: the optional marker of parameter i (counted from 0)
paramOpt(params, i, lastOptional) ==
  IF i >= lastOptional /\ params[i + 1].optional THEN "?" ELSE ""

\* `${param.name}` of a parameter that may have no name
nameText(param) == IF param.name = "" THEN "undefined" ELSE param.name

\* lines 454-455: the name a parameter's Path Id ends in; i is counted from 0
paramName(param, i) == IF param.name # "" THEN param.name ELSE "_" \o ToString(i)

\* lines 457-468: one parameter, given the result r of rendering its type
paramLine(param, childId, pos, needsGap, opt, r) ==
  IF ~r.ok THEN Throw(r.text, <<Call("renderComment", childId, pos)>> \o r.calls)
  ELSE [Nothing EXCEPT
          !.lines = gapLines(renderComment(param, childId), needsGap)
                      \o <<Ln("param", childId, nameText(param) \o opt \o ": " \o r.text \o ",")>>,
          !.calls = <<Call("renderComment", childId, pos)>> \o r.calls]

\* lines 453-469: the parameters from index i (counted from 1) on
renderParams(params, id, pos, i, needsGap, lastOptional) ==
  IF i > Len(params) THEN Nothing
  ELSE Then(paramLine(params[i], Append(id, paramName(params[i], i - 1)),
                      Append(pos, "parameters" \o ToString(i - 1)), needsGap,
                      paramOpt(params, i - 1, lastOptional),
                      renderType(Some(params[i]), Append(id, paramName(params[i], i - 1)), FALSE,
                                 Append(pos, "parameters" \o ToString(i - 1)))),
            renderParams(params, id, pos, i + 1,
                         renderComment(params[i], Append(id, paramName(params[i], i - 1))) # <<>>,
                         lastOptional))

\* line 441: the parameters that are not nodoc
docParams(spec) ==
  LET ps == IF spec.parameters = None THEN <<>> ELSE spec.parameters[1]
  IN SelectIdx(ps, [i \in 1..Len(ps) |-> ~ps[i].nodoc], 1)

\* lines 442-484, given the rendered parameters ps and the rendered return type r
functionOf(spec, calls, ps, r) ==
  IF ~ps.ok THEN Throw(ps.text, calls \o ps.calls)
  ELSE IF spec.returns_async # None
  THEN Throw("got inline returns_async on function", calls \o ps.calls)
  ELSE IF ~r.ok THEN Throw(r.text, calls \o ps.calls \o r.calls)
  ELSE [ok |-> TRUE, calls |-> calls \o ps.calls \o r.calls, parts |-> <<>>,
        lines |-> (IF Len(docParams(spec)) > 0 THEN <<Line("(")>> \o ps.lines \o <<Line(")")>>
                   ELSE <<Line("()")>>) \o <<Line(" => " \o r.text)>>,
        text |-> render((IF Len(docParams(spec)) > 0 THEN <<Line("(")>> \o ps.lines \o <<Line(")")>>
                         ELSE <<Line("()")>>) \o <<Line(" => " \o r.text)>>)]

\* lines 436-485
renderFunction(spec, id, pos, calls) ==
  functionOf(spec, calls,
             IF Len(docParams(spec)) > 0
             THEN renderParams(docParams(spec), id, pos, 1, FALSE, lastOptionalOf(docParams(spec)))
             ELSE Nothing,
             renderType(spec.returns, Append(id, "return"), FALSE, Append(pos, "returns")))

\* a faulty fallback that returns every type name verbatim (C4 fails)
typeVerbatim(type, id) == Some(type)

\* lines 487-507: the primitive fallback; None when the type is unsupported
primitiveType(type, id) ==
  CASE type \in {"int64", "integer", "number", "double"} -> Some("number")
    [] type = "binary" -> Some("ArrayBuffer")
    [] type = "any" -> (IF replaceAnyWith(id) # None THEN replaceAnyWith(id) ELSE Some("any"))
    [] type \in {"boolean", "string", "void", "undefined"} -> Some(type)
    [] OTHER -> None

\* lines 487-507
renderPrimitive(spec, id, pos, calls) ==
  LET t == primitiveType(spec.type, id)
      c == IF spec.type = "any" THEN calls \o <<Call("replaceAnyWith", id, pos)>> ELSE calls
  IN IF t = None THEN Throw("unsupported type", c) ELSE Ret(t[1], c)

\* lines 279-508.  optSpec is None for `undefined`; pos is the node's position in the
\* schema tree (ghost)
renderType(optSpec, id, ambig, pos) ==
  LET given == IF optSpec = None THEN VoidNode ELSE optSpec[1]
      ov == typeOverride(given, id)
      spec == IF ov # None THEN ov[1] ELSE given
      calls == <<Call("renderType", id, pos), Call("typeOverride", id, pos)>>
  IN IF spec.nodoc THEN Throw("render nodoc type", calls)
     ELSE IF spec.isInstanceOf # "" THEN Ret(spec.isInstanceOf, calls)
     ELSE IF spec.enum # None THEN renderEnum(spec, ambig, calls)
     ELSE IF spec.choices # None
     THEN IF Len(spec.choices[1]) = 0 THEN Throw("zero choices", calls)
          ELSE choicesType(ambig, calls, renderChoices(spec.choices[1], id, pos, 1))
     ELSE IF spec.type = "array" THEN renderArray(spec, id, ambig, pos, calls)
     ELSE IF spec.type = "object" THEN renderObject(spec, id, pos, calls)
     ELSE IF spec.ref # "" THEN renderRef(spec, id, pos, calls)
     ELSE IF hasValue(spec) THEN Ret(JSONstringify(spec.value[1]), calls)
     ELSE IF spec.type = "function" \/ (spec.type = "" /\ spec.parameters # None)
     THEN renderFunction(spec, id, pos, calls)
     ELSE renderPrimitive(spec, id, pos, calls)

(***************************************************************************)
(* Top-level functions, object types, namespaces.                          *)
(***************************************************************************)
\* a variant of a function signature: [returnSpec, ...params]; returnsAt and
\* paramsAt name the schema positions of the return node and the parameters (ghost)
Variant(returns, params, returnsAt, paramsAt) ==
  [returns |-> returns, params |-> params, returnsAt |-> returnsAt, paramsAt |-> paramsAt]

\* TraverseContext.expandFunctionParams
expandFunctionParams(spec, id) ==
  LET params == IF spec.parameters = None THEN <<>> ELSE spec.parameters[1]
      at == [i \in 1..Len(params) |-> "parameters" \o ToString(i - 1)]
  IN IF spec.returns_async = None
     THEN <<Variant(spec.returns, params, "returns", at)>>
     ELSE LET async == spec.returns_async[1]
              aps == IF async.parameters = None THEN <<>> ELSE async.parameters[1]
              callback == [Prim("function") EXCEPT !.name = async.name, !.parameters = Some(aps),
                                                   !.optional = async.optional]
              resolved == IF Len(aps) = 0 THEN VoidNode ELSE aps[1]
              promise == [Blank EXCEPT !.ref = "Promise", !.value = Some(Arr("return", <<resolved>>))]
          IN <<Variant(spec.returns, Append(params, callback), "returns", Append(at, "returns_async")),
               Variant(Some(promise), params, "returns_async.promise", at)>>

RECURSIVE renderTopParams(_, _, _, _, _)
RECURSIVE renderExpansions(_, _, _, _, _, _)
RECURSIVE renderFunctions(_, _, _, _)
RECURSIVE renderMembers(_, _, _, _)
RECURSIVE renderTypes(_, _, _)
RECURSIVE renderProperties(_, _, _)

\* lines 259-263: one parameter of a variant, given the result r of rendering its type
topParamLine(param, name, childId, r) ==
  IF ~r.ok THEN r
  ELSE [Nothing EXCEPT
          !.lines = <<Ln("param", childId,
                         (IF isValidToken(name) THEN name ELSE "_" \o name)
                           \o optMark(param.optional) \o ": " \o r.text \o ",")>>,
          !.calls = r.calls]

\* lines 258-264: the parameters of a variant from index i (counted from 1) on
renderTopParams(params, at, id, pos, i) ==
  IF i > Len(params) THEN Nothing
  ELSE Then(topParamLine(params[i], paramName(params[i], i - 1), Append(id, paramName(params[i], i - 1)),
                         renderType(Some(params[i]), Append(id, paramName(params[i], i - 1)), FALSE,
                                    Append(pos, at[i]))),
            renderTopParams(params, at, id, pos, i + 1))

\* a faulty test that also aliases the functions of object types (C6 fails)
aliasAlways(name, exportFunction) == ~isValidToken(name)

\* line 228: whether the function is declared under an alias and re-exported
needsAlias(name, exportFunction) == ~isValidToken(name) /\ exportFunction

\* lines 242-246: the node whose documentation is rendered for a variant.  The
\* spread of spec comes last, so spec's own parameters and returns win, and the
\* variant's parameters are stored under the key `paramaters`, which nothing reads
virtualSpec(spec, variant) ==
  [spec EXCEPT !.returns = IF spec.returns # None THEN spec.returns ELSE variant.returns]

\* lines 239-266: one variant, given the rendered return type ret and parameters ps
expansion(spec, v, id, pos, declared, ret, ps) ==
  IF ~ret.ok THEN Throw(ret.text, <<Call("renderComment", id, pos)>> \o ret.calls)
  ELSE IF ~ps.ok THEN Throw(ps.text, <<Call("renderComment", id, pos)>> \o ret.calls \o ps.calls)
  ELSE [Nothing EXCEPT
          !.lines = <<Line("")>> \o renderComment(virtualSpec(spec, v), id)
                      \o <<[Ln("function", id, declared \o "(") EXCEPT !.variant = Some([spec |-> spec, v |-> v])]>>
                      \o (IF Len(v.params) = 0 THEN <<Line(")" \o ": " \o ret.text \o ";")>>
                          ELSE <<Line("")>> \o ps.lines \o <<Line(")"), Line(": " \o ret.text \o ";")>>),
          !.calls = <<Call("renderComment", id, pos)>> \o ret.calls \o ps.calls]

\* lines 238-267: the variants from index k on; declared is `${prefix}${effectiveName}`
renderExpansions(spec, expansions, id, pos, declared, k) ==
  IF k > Len(expansions) THEN Nothing
  ELSE Then(expansion(spec, expansions[k], id, pos, declared,
                      renderType(expansions[k].returns, Append(id, "return"), FALSE,
                                 Append(pos, expansions[k].returnsAt)),
                      IF Len(expansions[k].params) > 0
                      THEN renderTopParams(expansions[k].params, expansions[k].paramsAt, id, pos, 1)
                      ELSE Nothing),
            renderExpansions(spec, expansions, id, pos, declared, k + 1))

\* lines 219-270
renderTopFunction(spec, id, exportFunction, pos) ==
  IF spec.name = ""
  THEN Throw("cannot render unnamed function", <<Call("renderTopFunction", id, pos)>>)
  ELSE LET alias == needsAlias(spec.name, exportFunction)
           effectiveName == IF alias THEN "_" \o spec.name ELSE spec.name
           prefix == IF alias THEN "function " ELSE IF exportFunction THEN "export function " ELSE ""
           first == IF alias
                    THEN <<Line(""), Ln("reexport", id, "export {" \o effectiveName \o " as " \o spec.name \o "};")>>
                    ELSE <<>>
       IN Then([Emit(first) EXCEPT !.calls = <<Call("renderTopFunction", id, pos)>>],
               renderExpansions(spec, expandFunctionParams(spec, id), id, pos, prefix \o effectiveName, 1))

\* the visitor of context.forEach over functions, from index i on
renderFunctions(fns, exportFunction, pos, i) ==
  IF i > Len(fns) THEN Nothing
  ELSE Then(renderTopFunction(fns[i].node, fns[i].id, exportFunction,
                              Append(pos, "functions." \o last(fns[i].id))),
            renderFunctions(fns, exportFunction, pos, i + 1))

\* lines 181-195: one property of an interface, given the result r of rendering its type
memberLine(prop, childId, pos, needsGap, r) ==
  IF ~r.ok THEN Throw(r.text, <<Call("renderComment", childId, pos)>> \o r.calls)
  ELSE [Nothing EXCEPT
          !.lines = gapLines(renderComment(prop, childId), needsGap)
                      \o <<Ln("property", childId, last(childId) \o optMark(prop.optional) \o ": " \o r.text \o ";")>>,
          !.calls = <<Call("renderComment", childId, pos)>> \o r.calls]

\* lines 180-196: the properties of an interface from index i on
renderMembers(props, pos, i, needsGap) ==
  IF i > Len(props) THEN Nothing
  ELSE Then(memberLine(props[i].node, props[i].id, Append(pos, "properties." \o last(props[i].id)), needsGap,
                       renderType(Some(props[i].node), props[i].id, FALSE,
                                  Append(pos, "properties." \o last(props[i].id)))),
            renderMembers(props, pos, i + 1, renderComment(props[i].node, props[i].id) # <<>>))

\* line 172: prop.properties?.['instanceType']
hasInstanceType(prop) == \E i \in 1..Len(prop.properties) : prop.properties[i].key = "instanceType"

\* lines 165-175, 204-207: `${mode} ${name}${templatePart} {` and the constructor
objectHead(prop, id) ==
  LET name == last(id)
      templates == objectTemplatesFor(id)
      templatePart == IF templates # None THEN "<" \o templates[1] \o ">" ELSE ""
  IN IF hasInstanceType(prop)
     THEN <<Ln("type", id, "class " \o name \o templatePart \o " {"),
            Ln("constructor", id, "constructor(arg: Omit<" \o name \o ", 'instanceType'>);")>>
     ELSE <<Ln("type", id, "interface " \o name \o templatePart \o " {")>>

\* lines 162-208: the lines of the interface or class
renderObjectAsType(prop, id, pos) ==
  Then(Emit(objectHead(prop, id)),
       Then(renderMembers(propertiesFor(prop, id), pos, 1, FALSE),
            Then(renderFunctions(forEachVisible(prop.functions, id), FALSE, pos, 1),
                 [Emit(<<Line("}")>>) EXCEPT !.calls = <<Call("objectTemplatesFor", id, pos)>>])))

\* lines 123-134: one top-level type, given the result r of rendering it
typeDecl(spec, id, pos, r) ==
  IF ~r.ok THEN Throw(r.text, <<Call("renderComment", id, pos)>> \o r.calls)
  ELSE [Nothing EXCEPT
          !.lines = <<Line("")>> \o renderComment(spec, id)
                      \o (IF spec.type = "object" THEN <<Line("export ")>> \o r.lines
                          ELSE <<Ln("type", id, "export type " \o last(id) \o " = " \o r.text \o ";")>>),
          !.calls = <<Call("renderComment", id, pos)>> \o r.calls]

\* lines 114-135: the visitor of context.forEach over types, from index i on
renderTypes(types, pos, i) ==
  IF i > Len(types) THEN Nothing
  ELSE Then(IF ~isValidToken(last(types[i].id)) THEN Nothing
            ELSE typeDecl(types[i].node, types[i].id, Append(pos, "types." \o last(types[i].id)),
                          IF types[i].node.type = "object"
                          THEN renderObjectAsType(types[i].node, types[i].id,
                                                  Append(pos, "types." \o last(types[i].id)))
                          ELSE renderType(Some(types[i].node), types[i].id, FALSE,
                                          Append(pos, "types." \o last(types[i].id)))),
            renderTypes(types, pos, i + 1))

\* lines 140-146: one top-level property, given the result r of rendering its type
propertyDecl(spec, id, pos, r) ==
  IF ~r.ok THEN Throw(r.text, <<Call("renderComment", id, pos)>> \o r.calls)
  ELSE [Nothing EXCEPT
          !.lines = <<Line("")>> \o renderComment(spec, id)
                      \o <<Ln("property", id,
                              "export " \o (IF spec.optional THEN "let" ELSE "const") \o " " \o last(id)
                                \o ": " \o r.text \o ";")>>,
          !.calls = <<Call("renderComment", id, pos)>> \o r.calls]

\* lines 139-147: the top-level properties from index i on
renderProperties(properties, pos, i) ==
  IF i > Len(properties) THEN Nothing
  ELSE Then(propertyDecl(properties[i].node, properties[i].id,
                         Append(pos, "properties." \o last(properties[i].id)),
                         renderType(Some(properties[i].node), properties[i].id, FALSE,
                                    Append(pos, "properties." \o last(properties[i].id)))),
            renderProperties(properties, pos, i + 1))

\* a faulty traversal that yields every property, visible or not (C3 fails)
rawProperties(namespace, toplevel) ==
  [i \in 1..Len(namespace.properties) |->
     [id |-> Append(toplevel, namespace.properties[i].key), node |-> namespace.properties[i].node]]

\* line 138: the top-level properties that are rendered
namespaceProperties(namespace, toplevel) == propertiesFor(namespace, toplevel)

\* lines 108-155; toplevel stands for `api:${namespace.namespace}`
renderInnerNamespace(namespace) ==
  Then(renderTypes(forEachVisible(namespace.types, <<namespace.namespace>>), <<namespace.namespace>>, 1),
       Then(renderProperties(namespaceProperties(namespace, <<namespace.namespace>>), <<namespace.namespace>>, 1),
            renderFunctions(forEachVisible(namespace.functions, <<namespace.namespace>>), TRUE,
                            <<namespace.namespace>>, 1)))

\* lines 76-101, given the rendered content; lines is <<>> where the source returns null
namespaceOf(namespace, content) ==
  LET name == namespace.namespace
      id == <<name>>
      c0 == <<Call("renderNamespace", id, id)>>
      head == <<Line("")>> \o renderComment(namespace, id) \o <<Line("")>>
  IN IF ~content.ok THEN Throw(content.text, c0 \o content.calls)
     ELSE IF Len(content.lines) = 0 THEN Logged(c0 \o content.calls)
     ELSE [Nothing EXCEPT
             !.calls = c0 \o content.calls \o <<Call("renderComment", id, id)>>,
             !.lines = IF isValidToken(name)
                       THEN head \o <<Ln("namespace", id, "export namespace " \o name \o " {")>>
                              \o content.lines \o <<Line("}")>>
                       ELSE head \o <<Ln("namespace", id, "namespace _" \o name \o " {")>>
                              \o content.lines
                              \o <<Line("}"), Ln("reexport", id, "export {_" \o name \o " as " \o name \o "};")>>]

\* lines 71-102
renderNamespace(namespace) ==
  IF namespace.nodoc
  THEN Logged(<<Call("renderNamespace", <<namespace.namespace>>, <<namespace.namespace>>)>>)
  ELSE namespaceOf(namespace, renderInnerNamespace(namespace))

\* String.prototype.localeCompare on the names of the model: negative, zero or positive
NameOrder == <<"alarms", "debugger", "tabs">>
localeCompare(a, b) ==
  (CHOOSE i \in 1..Len(NameOrder) : NameOrder[i] = a) - (CHOOSE i \in 1..Len(NameOrder) : NameOrder[i] = b)

\* a faulty sort that keeps the insertion order (C7 fails)
insertionOrder(e) == e

\* line 47: entries.sort(([a], [b]) => a.localeCompare(b)); the key of an entry is its
\* namespace name
sortEntries(e) ==
  CHOOSE s \in [1..Len(e) -> {e[i] : i \in 1..Len(e)}] :
    /\ \A i \in 1..Len(e) : \E j \in 1..Len(e) : s[j] = e[i]
    /\ \A i, j \in 1..Len(e) : i < j => localeCompare(s[i].namespace, s[j].namespace) <= 0

(***************************************************************************)
(* The inputs of the model.                                                *)
(***************************************************************************)
SeqsUpTo(S, n) == UNION {[1..k -> S] : k \in 0..n}

PrimTypes == {"int64", "integer", "number", "double", "binary", "any", "boolean", "string", "void", "undefined"}

BaseIds == {<<"a", "T">>, <<"a", "U">>}

StringEnum == [Prim("string") EXCEPT !.enum = Some(<<Str("a"), Str("b")>>)]
NodocString == [Prim("string") EXCEPT !.nodoc = TRUE]
StringOrAny == [Blank EXCEPT !.choices = Some(<<Prim("string"), Prim("any")>>)]

EnumNodes ==
  {StringEnum,
   [Prim("integer") EXCEPT !.enum = Some(<<Num(1), Num(2)>>)],
   [Prim("string") EXCEPT !.enum = Some(<<>>)],
   [Prim("number") EXCEPT !.enum = Some(<<Num(1)>>)],
   [Prim("string") EXCEPT !.enum = Some(<<EnumObj("a", "first"), EnumObj("b", "")>>)]}

Literals == {Num(0), Num(1), Bool(FALSE), Bool(TRUE), Str(""), Str("x")}

ValueNodes == {[Prim(t) EXCEPT !.value = Some(v)] : t \in {"integer", "boolean", "string", ""}, v \in Literals}

RefNodes ==
  {[Blank EXCEPT !.ref = "Tab"],
   [Blank EXCEPT !.ref = "Tab", !.type = "string"],
   [Blank EXCEPT !.ref = "StorageArea", !.value = Some(Arr("x", <<>>))],
   [Blank EXCEPT !.ref = "Event", !.value = Some(Arr("x", <<Prim("string"), Prim("any")>>))],
   [Blank EXCEPT !.ref = "Event", !.value = Some(Str("x"))],
   [Blank EXCEPT !.ref = "Event", !.value = Some(Str(""))],
   [Blank EXCEPT !.ref = "StorageArea", !.properties = <<Entry("QUOTA", [Prim("integer") EXCEPT !.value = Some(Num(1))])>>]}

Leaves ==
  {Prim(t) : t \in PrimTypes \cup {"weird"}} \cup {NodocString, [Blank EXCEPT !.isInstanceOf = "Port", !.type = "object"]}
    \cup EnumNodes \cup ValueNodes \cup RefNodes

SmallLeaves == {Prim("string"), Prim("any"), StringEnum, NodocString}

ChoiceNodes == {[Blank EXCEPT !.choices = Some(c)] : c \in SeqsUpTo(SmallLeaves, 2)}

Cardinalities == {None} \cup {Some(n) : n \in 0..MaxItems}

ArrayNodes ==
  {[Prim("array") EXCEPT !.items = i, !.minItems = lo, !.maxItems = hi] :
     i \in {None} \cup {Some(n) : n \in SmallLeaves \cup {StringOrAny}},
     lo \in Cardinalities, hi \in Cardinalities}

PropNodes == {Prim("string"), Prim("any"), NodocString,
              [Prim("string") EXCEPT !.optional = TRUE, !.description = "$(ref:Tab)"]}

PropLists ==
  {<<>>} \cup {<<Entry(k, n)>> : k \in {"p", "return"}, n \in PropNodes}
         \cup {<<Entry("p", n), Entry("return", m)>> : n \in PropNodes, m \in PropNodes}

ObjectNodes ==
  {[Prim("object") EXCEPT !.properties = ps, !.additionalProperties = ap] :
     ps \in PropLists, ap \in {None, Some(Prim("number")), Some(Prim("any"))}}

\* the parameter at position k (counted from 1) of a generated function
Param(k, optional, nodoc) ==
  [Prim("string") EXCEPT !.name = "p" \o ToString(k), !.optional = optional, !.nodoc = nodoc]

ParamLists ==
  {[k \in 1..Len(f) |-> Param(k, f[k][1], f[k][2])] : f \in SeqsUpTo(BOOLEAN \X BOOLEAN, MaxParams)}
    \cup {<<[Prim("string") EXCEPT !.name = "return"]>>,
          <<[Prim("string") EXCEPT !.description = "None"], [Prim("any") EXCEPT !.optional = TRUE]>>}

FunctionNodes ==
  {[Prim(t) EXCEPT !.parameters = Some(ps), !.returns = r, !.returns_async = ra] :
     t \in {"function", ""}, ps \in ParamLists,
     r \in {None, Some([Prim("boolean") EXCEPT !.description = "done"])},
     ra \in {None, Some([Prim("function") EXCEPT !.name = "callback"])}}

TypeInputs == Leaves \cup ChoiceNodes \cup ArrayNodes \cup ObjectNodes \cup FunctionNodes

NoOverrides == [type |-> None, any |-> None, templates |-> None]

OverrideTables ==
  {NoOverrides,
   [NoOverrides EXCEPT !.any = Some([id |-> <<"a", "T">>, text |-> "unknown"])],
   [NoOverrides EXCEPT !.type = Some([id |-> <<"a", "T">>, node |-> Prim("boolean")])],
   [NoOverrides EXCEPT !.templates = Some([id |-> <<"a", "T">>, text |-> "T = any"])]}

HiddenSets == {{}, {<<"a", "T", "p">>}, {<<"a", "T">>}}

\* the schema entries the namespaces of the model are built from
TabType ==
  [Prim("object") EXCEPT
     !.description = "A tab.",
     !.properties = <<Entry("id", [Prim("integer") EXCEPT !.optional = TRUE]),
                      Entry("secret", NodocString),
                      Entry("url", [Prim("string") EXCEPT !.description = "$(ref:Tab)"])>>,
     !.functions = <<Entry("delete", [Prim("function") EXCEPT !.name = "delete"]),
                     Entry("internal", [Prim("function") EXCEPT !.name = "internal", !.nodoc = TRUE])>>]

RuleType ==
  [Prim("object") EXCEPT
     !.properties = <<Entry("instanceType", [Prim("string") EXCEPT !.enum = Some(<<Str("Rule")>>)]),
                      Entry("css", [Prim("array") EXCEPT !.items = Some(Prim("string")), !.optional = TRUE])>>]

LevelType == [StringEnum EXCEPT !.description = "NONE"]

GetFunction ==
  [Prim("function") EXCEPT
     !.name = "get",
     !.parameters = Some(<<[Prim("integer") EXCEPT !.name = "tabId", !.description = "The tab."]>>),
     !.returns = Some([Prim("boolean") EXCEPT !.description = "Whether it exists."])]

QueryFunction ==
  [Prim("function") EXCEPT
     !.name = "query",
     !.parameters = Some(<<[Prim("string") EXCEPT !.name = "url", !.optional = TRUE]>>),
     !.returns_async = Some([Prim("function") EXCEPT
                               !.name = "callback",
                               !.parameters = Some(<<[Blank EXCEPT !.name = "tab", !.ref = "Tab"]>>)])]

DeleteFunction == [Prim("function") EXCEPT !.name = "delete", !.deprecated = Some("Use remove.")]

TypeMaps ==
  {<<>>,
   <<Entry("Tab", TabType), Entry("Level", LevelType)>>,
   <<Entry("Hidden", NodocString), Entry("3d", Prim("number")), Entry("Rule", RuleType)>>}

PropertyMaps ==
  {<<>>,
   <<Entry("MAX", [Prim("integer") EXCEPT !.value = Some(Num(1))]),
     Entry("experimental", [Prim("any") EXCEPT !.nodoc = TRUE]),
     Entry("lastError", [Prim("object") EXCEPT !.optional = TRUE, !.description = "The last error.",
                                              !.properties = <<Entry("message", Prim("string"))>>])>>,
   <<Entry("broken", Prim("weird"))>>}

FunctionMaps ==
  {<<>>,
   <<Entry("get", GetFunction), Entry("query", QueryFunction)>>,
   <<Entry("delete", DeleteFunction), Entry("legacy", [GetFunction EXCEPT !.name = "legacy", !.nodoc = TRUE]),
     Entry("get", GetFunction)>>,
   <<Entry("anonymous", [Prim("function") EXCEPT !.name = ""]), Entry("get", GetFunction)>>}

Namespace(name, nodoc, types, properties, functions) ==
  [Blank EXCEPT !.namespace = name, !.nodoc = nodoc, !.description = "The " \o name \o " API.",
                !.types = types, !.properties = properties, !.functions = functions]

NamespacePool(name) ==
  {Namespace(name, FALSE, t, p, f) : t \in TypeMaps, p \in PropertyMaps, f \in FunctionMaps}
    \cup {Namespace(name, TRUE, <<Entry("Level", LevelType)>>, <<>>, <<Entry("get", GetFunction)>>)}

\* nodes on which renderType throws
ErrorNodes ==
  {Prim("weird"),
   [Prim("string") EXCEPT !.enum = Some(<<>>)],
   [Prim("number") EXCEPT !.enum = Some(<<Num(1)>>)],
   [Blank EXCEPT !.choices = Some(<<>>)],
   [Blank EXCEPT !.ref = "Event", !.value = Some(Str("x"))],
   [Prim("function") EXCEPT !.returns_async = Some([Prim("function") EXCEPT !.name = "callback"])],
   [Prim("array") EXCEPT !.items = Some(NodocString)]}

\* o.api: namespaces under distinct names, in any insertion order
ApiInputs ==
  {<<>>} \cup (NamespacePool("tabs") \X NamespacePool("alarms"))
         \cup {<<Namespace("debugger", FALSE, <<Entry("Level", LevelType)>>, <<Entry("broken", n)>>, <<>>),
                 Namespace("alarms", FALSE, <<>>, <<>>, <<Entry("get", GetFunction)>>)>> : n \in ErrorNodes}
         \cup (NamespacePool("alarms") \X NamespacePool("debugger"))
         \cup {<<a, b, c>> : a \in {Namespace("tabs", FALSE, t, <<>>, <<>>) : t \in TypeMaps},
                             b \in {Namespace("alarms", FALSE, <<>>, p, <<>>) : p \in PropertyMaps},
                             c \in {Namespace("debugger", d, <<>>, <<>>, f) : d \in BOOLEAN, f \in FunctionMaps}}

RunOverrideTables ==
  {NoOverrides,
   [type |-> None,
    any |-> Some([id |-> <<"tabs", "Tab", "id">>, text |-> "unknown"]),
    templates |-> Some([id |-> <<"tabs", "Tab">>, text |-> "T = any"])]}

RunHiddenSets == {{}, {<<"tabs", "get">>, <<"tabs", "Level">>, <<"debugger", "MAX">>, <<"alarms", "Tab", "url">>}}

NoResult == Throw("", <<>>)

(***************************************************************************)
(* SpecType: renderType applied to one node.                               *)
(***************************************************************************)
runVars == <<api, entries, idx, buf, stdout, log>>
typeVars == <<argSpec, argId, argAmbig, result>>

InitType ==
  /\ pc = "type"
  /\ overrides \in OverrideTables
  /\ hiddenIds \in HiddenSets
  /\ argSpec \in TypeInputs
  /\ argId \in BaseIds
  /\ argAmbig \in BOOLEAN
  /\ result = NoResult
  /\ api = <<>> /\ entries = <<>> /\ idx = 1 /\ buf = <<>> /\ stdout = <<>> /\ log = <<>>

\* renderType(spec, id, ambig)
CallRenderType ==
  /\ pc = "type"
  /\ result' = renderType(Some(argSpec), argId, argAmbig, <<>>)
  /\ pc' = "typed"
  /\ UNCHANGED <<overrides, hiddenIds, argSpec, argId, argAmbig, runVars>>

NextType == CallRenderType

SpecType == InitType /\ [][NextType]_vars

(***************************************************************************)
(* Spec: a whole generation run (lines 43-64).                             *)
(***************************************************************************)
Init ==
  /\ pc = "start"
  /\ overrides \in RunOverrideTables
  /\ hiddenIds \in RunHiddenSets
  /\ api \in ApiInputs
  /\ entries = <<>> /\ idx = 1 /\ buf = <<>> /\ stdout = <<>> /\ log = <<>>
  /\ argSpec = VoidNode /\ argId = <<>> /\ argAmbig = FALSE /\ result = NoResult

\* lines 43-47
Start ==
  /\ pc = "start"
  /\ buf' = <<Line("declare namespace chrome {")>>
  /\ entries' = sortEntries(api)
  /\ idx' = 1
  /\ pc' = "namespaces"
  /\ UNCHANGED <<overrides, hiddenIds, api, stdout, log, typeVars>>

\* a faulty loop that recovers from an Error and goes on (C5 fails)
carryOn(ok) == "namespaces"

\* where the run goes after renderNamespace returned (ok) or threw: an Error
\* leaves entries.forEach and ends the module's evaluation
afterNamespace(ok) == IF ok THEN "namespaces" ELSE "aborted"

\* lines 48-53: what one round of entries.forEach does with the result r of
\* renderNamespace
appendNamespace(r) ==
  /\ log' = log \o r.calls \o (IF r.ok THEN <<>> ELSE <<Call("throw", <<r.text>>, <<>>)>>)
  /\ buf' = IF r.ok THEN buf \o r.lines ELSE buf
  /\ pc' = afterNamespace(r.ok)

\* lines 48-53: one round of entries.forEach
RenderNamespace ==
  /\ pc = "namespaces"
  /\ idx <= Len(entries)
  /\ appendNamespace(renderNamespace(entries[idx]))
  /\ idx' = idx + 1
  /\ UNCHANGED <<overrides, hiddenIds, api, entries, stdout, typeVars>>

\* lines 55-56
EndBuffer ==
  /\ pc = "namespaces"
  /\ idx > Len(entries)
  /\ buf' = buf \o <<Line("}"), Line("")>>
  /\ pc' = "preamble"
  /\ UNCHANGED <<overrides, hiddenIds, api, entries, idx, stdout, log, typeVars>>

\* lines 59-62
WritePreamble ==
  /\ pc = "preamble"
  /\ stdout' = Append(stdout, "preamble.d.ts")
  /\ pc' = "timestamp"
  /\ UNCHANGED <<overrides, hiddenIds, api, entries, idx, buf, log, typeVars>>

\* line 63
WriteTimestamp ==
  /\ pc = "timestamp"
  /\ stdout' = Append(stdout, "\n\n// Generated on <date>\n\n\n")
  /\ pc' = "declarations"
  /\ UNCHANGED <<overrides, hiddenIds, api, entries, idx, buf, log, typeVars>>

\* line 64
WriteDeclarations ==
  /\ pc = "declarations"
  /\ stdout' = Append(stdout, render(buf))
  /\ pc' = "done"
  /\ UNCHANGED <<overrides, hiddenIds, api, entries, idx, buf, log, typeVars>>

Next ==
  \/ Start
  \/ RenderNamespace
  \/ EndBuffer
  \/ WritePreamble
  \/ WriteTimestamp
  \/ WriteDeclarations

Spec == Init /\ [][Next]_vars

(***************************************************************************)
(* The claims.                                                             *)
(***************************************************************************)
Range(q) == {q[i] : i \in 1..Len(q)}
IsPrefix(a, b) == Len(a) <= Len(b) /\ SubSeq(b, 1, Len(a)) = a
KindLines(b, kinds) == SelectIdx(b, [i \in 1..Len(b) |-> b[i].kind \in kinds], 1)
NotOverridden == typeOverride(argSpec, argId) = None

\* the union of tuples the claim C1 describes, for lengths lo..hi
ExpectedTuples(inner, lo, hi, wrap) ==
  LET tuple(n) == "[" \o Join([k \in 1..n |-> inner], ", ") \o "]"
      alts == [k \in 1..(hi - lo + 1) |-> tuple(lo + k - 1)]
  IN IF lo = hi THEN tuple(lo) ELSE maybeWrapAmbig(wrap, Join(alts, " | "))

\* C1: an array node whose maxItems is set (0 included) and whose minItems (default
\* 0) is at most maxItems renders as the union of the tuples of each length from
\* minItems to maxItems, ascending; a single tuple is not parenthesized.
C1_MaxItemsTuples ==
  (/\ pc = "typed" /\ result.ok /\ NotOverridden
   /\ argSpec \in ArrayNodes
   /\ argSpec.maxItems # None
   /\ (IF argSpec.minItems = None THEN 0 ELSE argSpec.minItems[1]) <= argSpec.maxItems[1])
  => result.text =
       ExpectedTuples(renderType(IF argSpec.items = None THEN Some(NumberNode) ELSE argSpec.items,
                                 Append(argId, "_"), TRUE, <<"items">>).text,
                      IF argSpec.minItems = None THEN 0 ELSE argSpec.minItems[1],
                      argSpec.maxItems[1], argAmbig)

\* the parameters of the inline function under test that are not nodoc
C2_Params ==
  LET ps == IF argSpec.parameters = None THEN <<>> ELSE argSpec.parameters[1]
  IN SelectIdx(ps, [i \in 1..Len(ps) |-> ~ps[i].nodoc], 1)

\* whether the i-th parameter line of the result carries the optional marker
C2_Marked(i) ==
  KindLines(result.lines, {"param"})[i].text =
    nameText(C2_Params[i]) \o "?: "
      \o renderType(Some(C2_Params[i]), Append(argId, paramName(C2_Params[i], i - 1)), FALSE, <<>>).text \o ","

\* C2: in the parameter list of an inline function, a parameter carries the optional
\* marker only if it is optional and every parameter after it (among those that are
\* not nodoc) is optional; so no unmarked parameter follows a marked one.
C2_TrailingOptionals ==
  (/\ pc = "typed" /\ result.ok /\ NotOverridden /\ argSpec \in FunctionNodes)
  => /\ Len(KindLines(result.lines, {"param"})) = Len(C2_Params)
     /\ \A i \in 1..Len(C2_Params) :
          C2_Marked(i) => \A k \in i..Len(C2_Params) : C2_Params[k].optional /\ C2_Marked(k)

\* C2 witness: an optional parameter before a required one, rendered without the
\* marker, and a marked optional parameter at the end.
C2_Witness ==
  /\ pc = "typed" /\ result.ok /\ NotOverridden /\ argSpec \in FunctionNodes
  /\ Len(argSpec.parameters[1]) = 3
  /\ Len(C2_Params) = 3
  /\ C2_Params[1].optional /\ ~C2_Params[2].optional /\ C2_Params[3].optional
  /\ ~C2_Marked(1) /\ C2_Marked(3)

\* the fixed mapping of the primitive types
FixedMapping(t) ==
  IF t \in {"int64", "integer", "number", "double"} THEN "number"
  ELSE IF t = "binary" THEN "ArrayBuffer" ELSE t

PrimNodes == {Prim(t) : t \in PrimTypes}

\* C4 as stated: every primitive type, `any` included, renders to its fixed mapping
\* whatever the Path Id, so that two Path Ids give the same text.
C4_FixedForEveryPathId ==
  (pc = "typed" /\ argSpec \in PrimNodes)
  => /\ result.ok
     /\ result.text = FixedMapping(argSpec.type)
     /\ \A other \in BaseIds : renderType(Some(argSpec), other, argAmbig, <<>>).text = result.text

\* C4 amended: where typeOverride supplies no replacement, every primitive type other
\* than `any` renders to its fixed mapping whatever the Path Id; `any` renders to
\* what replaceAnyWith supplies for the Path Id, and to `any` when it supplies nothing.
C4_FixedExceptAny ==
  (pc = "typed" /\ argSpec \in PrimNodes /\ NotOverridden)
  => /\ result.ok
     /\ result.text = (IF argSpec.type = "any" /\ replaceAnyWith(argId) # None
                       THEN replaceAnyWith(argId)[1] ELSE FixedMapping(argSpec.type))
     /\ \A other \in BaseIds :
          (argSpec.type # "any" /\ typeOverride(argSpec, other) = None)
          => renderType(Some(argSpec), other, argAmbig, <<>>).text = result.text

\* C4 witness: `any` rendered under a Path Id for which replaceAnyWith supplies a type.
C4_Witness ==
  /\ pc = "typed" /\ result.ok /\ NotOverridden
  /\ argSpec = Prim("any") /\ replaceAnyWith(argId) # None
  /\ result.text = "unknown"

\* C8: in one call of renderType on a schema tree, two distinct node positions are
\* never rendered under the same Path Id.
C8_PathIdsUnique ==
  pc = "typed"
  => \A i, j \in 1..Len(result.calls) :
       (/\ result.calls[i].fn = "renderType" /\ result.calls[j].fn = "renderType"
        /\ result.calls[i].id = result.calls[j].id)
       => result.calls[i].pos = result.calls[j].pos

\* C10: a node that reaches the `value` step with a value present, the values 0,
\* false and "" included, renders as the JSON text of the value.
C10_ValueAsJSON ==
  (pc = "typed" /\ NotOverridden /\ argSpec \in ValueNodes)
  => result.ok /\ result.text = JSONstringify(argSpec.value[1])

\* the entries of the schema: kind, Path Id, position and node
Entries(kind, mapping, id, pos, field) ==
  {[kind |-> kind, id |-> Append(id, e.key), pos |-> Append(pos, field \o "." \o e.key), node |-> e.node] :
     e \in Range(mapping)}

TopEntries(ns) ==
  Entries("type", ns.types, <<ns.namespace>>, <<ns.namespace>>, "types")
    \cup Entries("property", ns.properties, <<ns.namespace>>, <<ns.namespace>>, "properties")
    \cup Entries("function", ns.functions, <<ns.namespace>>, <<ns.namespace>>, "functions")

NestedEntries(ns) ==
  UNION {Entries("property", e.node.properties, e.id, e.pos, "properties")
           \cup Entries("function", e.node.functions, e.id, e.pos, "functions") :
         e \in {t \in TopEntries(ns) : t.kind \in {"type", "property"} /\ t.node.type = "object"}}

AllEntries == UNION {TopEntries(ns) \cup NestedEntries(ns) : ns \in Range(api)}
Invisible == {e \in AllEntries : ~isVisible(e.node, e.id)}

\* C3: throughout the run, a property, type or function that the visibility policy
\* rejects has no declaration in the output, and neither renderType (with
\* typeOverride and replaceAnyWith), renderComment nor renderTopFunction is called
\* with its Path Id or for any node below it.  (The names of the types, properties
\* and functions of one container are distinct in the schemas of the model.)
C3_InvisibleNeverRendered ==
  \A e \in Invisible :
    /\ \A i \in 1..Len(buf) : ~(buf[i].kind = e.kind /\ buf[i].id = e.id)
    /\ \A i \in 1..Len(log) :
         log[i].fn \in {"renderType", "typeOverride", "replaceAnyWith", "renderComment", "renderTopFunction"}
         => log[i].id # e.id /\ ~IsPrefix(e.pos, log[i].pos)

\* C3 witness: a finished run whose schema has a rejected type, a rejected property
\* and a rejected function in namespaces that were rendered.
C3_Witness ==
  /\ pc = "done"
  /\ \A k \in {"type", "property", "function"} :
       \E e \in Invisible :
         /\ e.kind = k
         /\ \E i \in 1..Len(buf) : buf[i].kind = "namespace" /\ IsPrefix(buf[i].id, e.id)
  /\ \E e \in Invisible : Len(e.id) = 3 /\ \E i \in 1..Len(buf) : buf[i].kind = "type" /\ IsPrefix(buf[i].id, e.id)

\* C5: once a fatal error has been raised, nothing has been or is written to standard
\* output, the run is over, and no namespace is rendered after the one that threw.
C5_NoOutputOnError ==
  (\E i \in 1..Len(log) : log[i].fn = "throw")
  => /\ stdout = <<>>
     /\ pc = "aborted"
     /\ log[Len(log)].fn = "throw"
     /\ Cardinality({i \in 1..Len(log) : log[i].fn = "renderNamespace"}) = idx - 1

\* C5 witness: an error raised in the second namespace, after the first was rendered,
\* and with a third one left.
C5_Witness ==
  /\ pc = "aborted" /\ idx = 3 /\ Len(entries) = 3
  /\ Len(KindLines(buf, {"namespace"})) = 1
  /\ stdout = <<>>

\* the functions the run renders: kind "function" at the top level of a namespace,
\* "method" inside an object type
RenderedFunctions ==
  UNION {{[kind |-> "function", id |-> f.id, name |-> f.node.name] :
            f \in {e \in TopEntries(ns) : e.kind = "function" /\ isVisible(e.node, e.id)}}
         \cup {[kind |-> "method", id |-> f.id, name |-> f.node.name] :
                 f \in {e \in NestedEntries(ns) :
                          /\ e.kind = "function" /\ isVisible(e.node, e.id)
                          /\ \E t \in TopEntries(ns) :
                               /\ t.kind = "type" /\ IsPrefix(t.id, e.id)
                               /\ isVisible(t.node, t.id) /\ isValidToken(last(t.id))}} :
         ns \in {n \in Range(api) : ~n.nodoc}}

HasLine(kind, id, text) == \E i \in 1..Len(buf) : buf[i].kind = kind /\ buf[i].id = id /\ buf[i].text = text
HasKind(kind, id) == \E i \in 1..Len(buf) : buf[i].kind = kind /\ buf[i].id = id

\* a name that fails isValidToken is declared as `_<name>` and re-exported under the
\* name itself; a name that passes is declared verbatim and not re-exported
AliasedNamespace(n) ==
  IF isValidToken(n)
  THEN HasLine("namespace", <<n>>, "export namespace " \o n \o " {") /\ ~HasKind("reexport", <<n>>)
  ELSE /\ HasLine("namespace", <<n>>, "namespace _" \o n \o " {")
       /\ HasLine("reexport", <<n>>, "export {_" \o n \o " as " \o n \o "};")

AliasedFunction(f, export) ==
  IF isValidToken(f.name)
  THEN /\ \A i \in 1..Len(buf) : (buf[i].kind = "function" /\ buf[i].id = f.id) => buf[i].text = export \o f.name \o "("
       /\ HasKind("function", f.id) /\ ~HasKind("reexport", f.id)
  ELSE /\ \A i \in 1..Len(buf) : (buf[i].kind = "function" /\ buf[i].id = f.id) => buf[i].text = "function _" \o f.name \o "("
       /\ HasKind("function", f.id)
       /\ HasLine("reexport", f.id, "export {_" \o f.name \o " as " \o f.name \o "};")

\* the namespaces that have a block in the output
RenderedNamespaces == {ns.namespace : ns \in {n \in Range(api) : HasKind("namespace", <<n.namespace>>)}}

\* C6 as stated: every namespace and every function, the functions of object types
\* included, is aliased and re-exported when its name fails isValidToken, and is
\* emitted verbatim otherwise.
C6_EveryNameAliased ==
  pc = "done"
  => /\ \A n \in RenderedNamespaces : AliasedNamespace(n)
     /\ \A f \in RenderedFunctions :
          AliasedFunction(f, IF f.kind = "function" THEN "export function " ELSE "")

\* C6 amended: every rendered namespace and every function at the top level of a
\* namespace is aliased and re-exported when its name fails isValidToken and emitted
\* verbatim otherwise; a function of an object type is emitted under its own name,
\* without alias or re-export, whether or not the name passes isValidToken.
C6_TopLevelNamesAliased ==
  pc = "done"
  => /\ \A n \in RenderedNamespaces : AliasedNamespace(n)
     /\ \A f \in RenderedFunctions :
          IF f.kind = "function" THEN AliasedFunction(f, "export function ")
          ELSE /\ HasLine("function", f.id, f.name \o "(")
               /\ \A i \in 1..Len(buf) : (buf[i].kind = "function" /\ buf[i].id = f.id) => buf[i].text = f.name \o "("
               /\ ~HasKind("reexport", f.id)

\* C6 witness: a finished run with an aliased namespace, an aliased top-level function
\* and a function of an object type whose name fails isValidToken.
C6_Witness ==
  /\ pc = "done"
  /\ HasKind("reexport", <<"debugger">>)
  /\ HasKind("reexport", <<"debugger", "delete">>)
  /\ HasLine("function", <<"alarms", "Tab", "delete">>, "delete(")
  /\ HasLine("function", <<"alarms", "get">>, "export function get(")

\* the declarations of a buffer in order: namespace blocks and their top-level types,
\* properties and functions (one per variant of a function)
Declarations(b) ==
  LET top == SelectIdx(b, [i \in 1..Len(b) |->
                             \/ b[i].kind = "namespace"
                             \/ (b[i].kind \in {"type", "property", "function"} /\ Len(b[i].id) = 2)], 1)
  IN [i \in 1..Len(top) |-> <<top[i].kind, top[i].id>>]

\* the visible entries of a mapping, in the order of the schema
VisibleOf(kind, mapping, n) ==
  LET all == [i \in 1..Len(mapping) |-> <<kind, <<n, mapping[i].key>>>>]
      keep == [i \in 1..Len(mapping) |->
                 /\ isVisible(mapping[i].node, <<n, mapping[i].key>>)
                 /\ (kind = "type" => isValidToken(mapping[i].key))]
  IN SelectIdx(all, keep, 1)

RECURSIVE PerVariant(_, _, _)
\* each function once per variant: twice when it has returns_async
PerVariant(mapping, n, i) ==
  IF i > Len(mapping) THEN <<>>
  ELSE (IF ~isVisible(mapping[i].node, <<n, mapping[i].key>>) THEN <<>>
        ELSE IF mapping[i].node.returns_async # None
        THEN <<<<"function", <<n, mapping[i].key>>>>, <<"function", <<n, mapping[i].key>>>>>>
        ELSE <<<<"function", <<n, mapping[i].key>>>>>>)
       \o PerVariant(mapping, n, i + 1)

ExpectedBlock(ns) ==
  LET body == VisibleOf("type", ns.types, ns.namespace) \o VisibleOf("property", ns.properties, ns.namespace)
                \o PerVariant(ns.functions, ns.namespace, 1)
  IN IF ns.nodoc \/ body = <<>> THEN <<>> ELSE <<<<"namespace", <<ns.namespace>>>>>> \o body

RECURSIVE ExpectedDeclarations(_)
\* the blocks of the namespaces of api, taken in the order of their names
ExpectedDeclarations(i) ==
  IF i > Len(NameOrder) THEN <<>>
  ELSE (IF \E ns \in Range(api) : ns.namespace = NameOrder[i]
        THEN ExpectedBlock(CHOOSE ns \in Range(api) : ns.namespace = NameOrder[i])
        ELSE <<>>)
       \o ExpectedDeclarations(i + 1)

\* C7: in the final output the namespace blocks are in the order of their names
\* whatever the order of the input mapping, nodoc namespaces have no block, and in
\* each block the types come first, then the properties, then the functions, each
\* group in the order of the schema.
C7_DeclarationOrder ==
  pc \in {"preamble", "timestamp", "declarations", "done"}
  => Declarations(buf) = ExpectedDeclarations(1)

\* C7 witness: two namespaces given in the reverse of the order of their names, both
\* rendered, each with types, properties and functions.
C7_Witness ==
  /\ pc = "done"
  /\ Len(api) = 2 /\ api[1].namespace = "tabs" /\ api[2].namespace = "alarms"
  /\ Len(KindLines(buf, {"namespace"})) = 2
  /\ \A k \in {"type", "property", "function"}, n \in {"tabs", "alarms"} :
       \E i \in 1..Len(buf) : buf[i].kind = k /\ Len(buf[i].id) = 2 /\ buf[i].id[1] = n

\* C9: the documentation block written before each variant of a top-level function
\* has one @param tag for each parameter of that variant and takes its @returns tag
\* from the return node of that variant.
C9_VariantDocumentation ==
  \A i \in 1..Len(buf) :
    buf[i].kind = "function"
    => LET f == buf[i].variant[1]
           expected == renderComment([f.spec EXCEPT !.parameters = Some(f.v.params), !.returns = f.v.returns],
                                     buf[i].id)
       IN IF expected = <<>> THEN buf[i - 1].kind # "comment" ELSE buf[i - 1] = expected[1]

====
